---- MODULE Spec2Model ----
(***************************************************************************)
(* Model of md_cnn/model_training/tb_cnn_codebase_tf1.py: the phenotype    *)
(* encoder, the alpha (class weight) matrix, the tensor assembler, the     *)
(* masked weighted loss, the train/test splitter, the threshold selector   *)
(* and the on-disk cache of the alpha matrix.                              *)
(*                                                                         *)
(* Real numbers are exact rationals <<numerator, denominator>> in lowest   *)
(* terms with a positive denominator. Every function is called on inputs   *)
(* drawn from bounded sets; each has its own specification, and Spec is    *)
(* their union.                                                            *)
(***************************************************************************)
EXTENDS Integers, Sequences, FiniteSets, TLC

VARIABLES
    call,   \* name of the function being called
    args,   \* its arguments, under the parameter names of the source
    pc,     \* "start", "returned", "raised" (and "encoded" between two encoder calls)
    ret,    \* what the call returned, or the exception it raised
    fs,     \* the file at alpha_matrix_path: whether it exists, and its text
    proc,   \* per caller of load_alpha_matrix: its position and locals
    hist    \* history of the cache: computations, writes, overlap of callers

vars == <<call, args, pc, ret, fs, proc, hist>>

----------------------------------------------------------------------------
(* Rational arithmetic *)

Abs(n) == IF n < 0 THEN -n ELSE n

RECURSIVE Gcd(_, _)
Gcd(a, b) == IF b = 0 THEN a ELSE Gcd(b, a % b)

\* n/d in lowest terms, d # 0
Rat(n, d) ==
    LET g == Gcd(Abs(n), Abs(d))
        s == IF d < 0 THEN -1 ELSE 1
    IN  <<(s * n) \div g, (s * d) \div g>>

RInt(n) == <<n, 1>>
RAdd(a, b) == Rat(a[1] * b[2] + b[1] * a[2], a[2] * b[2])
RSub(a, b) == Rat(a[1] * b[2] - b[1] * a[2], a[2] * b[2])
RMul(a, b) == Rat(a[1] * b[1], a[2] * b[2])
RNeg(a) == <<-a[1], a[2]>>
RAbs(a) == <<Abs(a[1]), a[2]>>
RLess(a, b) == a[1] * b[2] < b[1] * a[2]
RLeq(a, b) == a[1] * b[2] <= b[1] * a[2]

Range(s) == {s[i] : i \in DOMAIN s}

\* What a call leaves behind
Returned(v) == [kind |-> "return", exc |-> "", val |-> v]
Raised(e, where) == [kind |-> "raise", exc |-> e, val |-> where]
NoRet == [kind |-> "none", exc |-> "", val |-> 0]

NoFile == [exists |-> FALSE, text |-> <<>>]
File(text) == [exists |-> TRUE, text |-> text]
NoProc == <<>>
NoHist == <<>>

----------------------------------------------------------------------------
(* get_threshold_val *)

\* np.linspace(0, 1, 101): the number of thresholds
NumThresholds == 101

\* thresholds[k], k = 0..100 (0-based as in the source)
Thresholds(k) == Rat(k, NumThresholds - 1)

\* np.sum(y_true == v)
CountEq(y, v) == Cardinality({i \in DOMAIN y : y[i] = v})

\* the inner loop over the samples for one threshold: fp_ (label 1) and tp_ (label 0)
\* among the samples with y_pred[i] < threshold
CountPredictedResistant(y_true, y_pred, threshold, label) ==
    Cardinality({i \in 1..Len(y_pred) :
                    RLess(y_pred[i], threshold) /\ y_true[i] = label})

\* np.max over a sequence of rationals
RMaxSeq(s) == LET v == Range(s) IN CHOOSE m \in v : \A x \in v : RLeq(x, m)

\* np.where(best == sens_spec_sum)[0]
BestInds(s) == LET best == RMaxSeq(s) IN {k \in DOMAIN s : s[k] = best}

BestSensSpecIndFirst(s) ==
    LET inds == BestInds(s) IN CHOOSE k \in inds : \A j \in inds : k <= j

\* squeeze(best_inds) when there is one, squeeze(best_inds)[-1] otherwise: the last
BestSensSpecInd(s) ==
    LET inds == BestInds(s) IN CHOOSE k \in inds : \A j \in inds : j <= k

\* The whole function. Python's int / float raises ZeroDivisionError on a zero
\* divisor: line 484 first (num_sensitive), then line 485 (num_resistant).
get_threshold_val(y_true, y_pred) ==
    LET num_sensitive == CountEq(y_true, 1)
        num_resistant == CountEq(y_true, 0)
    IN  IF num_sensitive = 0 THEN Raised("ZeroDivisionError", 484)
        ELSE IF num_resistant = 0 THEN Raised("ZeroDivisionError", 485)
        ELSE
          LET fpr_ == [k \in 1..NumThresholds |->
                         Rat(CountPredictedResistant(y_true, y_pred, Thresholds(k - 1), 1),
                             num_sensitive)]
              tpr_ == [k \in 1..NumThresholds |->
                         Rat(CountPredictedResistant(y_true, y_pred, Thresholds(k - 1), 0),
                             num_resistant)]
              sens_spec_sum == [k \in 1..NumThresholds |->
                                  RAdd(RSub(RInt(1), fpr_[k]), tpr_[k])]
              ind == BestSensSpecInd(sens_spec_sum)
          IN  Returned([threshold |-> Thresholds(ind - 1),
                        spec |-> RSub(RInt(1), fpr_[ind]),
                        sens |-> tpr_[ind]])

\* Inputs: labels over {0,1}, scores in [0,1]
MaxSamples == 4
Scores == {Rat(1, 10), Rat(1, 5), Rat(4, 5), Rat(9, 10)}

InitThreshold ==
    /\ call = "get_threshold_val"
    /\ \E n \in 0..MaxSamples :
         \E yt \in [1..n -> {0, 1}], yp \in [1..n -> Scores] :
            args = [y_true |-> yt, y_pred |-> yp]
    /\ pc = "start" /\ ret = NoRet
    /\ fs = NoFile /\ proc = NoProc /\ hist = NoHist

GetThresholdVal ==
    /\ call = "get_threshold_val" /\ pc = "start"
    /\ ret' = get_threshold_val(args.y_true, args.y_pred)
    /\ pc' = IF ret'.kind = "return" THEN "returned" ELSE "raised"
    /\ UNCHANGED <<call, args, fs, proc, hist>>

NextThreshold == GetThresholdVal
SpecThreshold == InitThreshold /\ [][NextThreshold]_vars

----------------------------------------------------------------------------
\* C1: for labels with both classes present, get_threshold_val returns the last
\* (highest) of the 101 thresholds k/100 that maximise
\* (1 - FP/num_sensitive) + TP/num_resistant, where an isolate is predicted
\* resistant exactly when its score < threshold, and 'spec' and 'sens' are the
\* specificity and sensitivity at that threshold.
C1_FP(k) == Cardinality({i \in DOMAIN args.y_pred :
                args.y_true[i] = 1 /\ args.y_pred[i][1] * 100 < k * args.y_pred[i][2]})
C1_TP(k) == Cardinality({i \in DOMAIN args.y_pred :
                args.y_true[i] = 0 /\ args.y_pred[i][1] * 100 < k * args.y_pred[i][2]})
\* the objective times num_sensitive * num_resistant
C1_Objective(k) ==
    LET ns == CountEq(args.y_true, 1)
        nr == CountEq(args.y_true, 0)
    IN  ns * nr - C1_FP(k) * nr + C1_TP(k) * ns

C1_BothClasses == CountEq(args.y_true, 1) > 0 /\ CountEq(args.y_true, 0) > 0

C1_Example == args = [y_true |-> <<0, 0, 1, 1>>,
                      y_pred |-> <<Rat(1, 10), Rat(1, 5), Rat(4, 5), Rat(9, 10)>>]

C1_Threshold ==
    (call = "get_threshold_val" /\ pc # "start" /\ C1_BothClasses) =>
        /\ ret.kind = "return"
        /\ LET t == ret.val.threshold
               k == (t[1] * 100) \div t[2]
               obj == [j \in 0..100 |-> C1_Objective(j)]
           IN  /\ k \in 0..100 /\ t[1] * 100 = k * t[2]
               /\ \A j \in 0..100 : obj[j] <= obj[k]
               /\ \A j \in (k + 1)..100 : obj[j] < obj[k]
               /\ ret.val.spec[1] * CountEq(args.y_true, 1)
                     = ret.val.spec[2] * (CountEq(args.y_true, 1) - C1_FP(k))
               /\ ret.val.sens[1] * CountEq(args.y_true, 0) = ret.val.sens[2] * C1_TP(k)
        /\ C1_Example => /\ ret.val.sens = <<1, 1>> /\ ret.val.spec = <<1, 1>>
                         /\ ret.val.threshold = <<4, 5>>

\* a tie between several thresholds was resolved (the example of the claim)
C1_Witness ==
    /\ call = "get_threshold_val" /\ pc = "returned" /\ C1_Example
    /\ Cardinality({k \in 0..100 : C1_Objective(k) = C1_Objective(80)}) > 1

----------------------------------------------------------------------------
(* alpha_mat *)

\* len(drugs), the hard-coded list of 13 drug names
NumDrugs == 13

\* y_cnn[:, drug]
Column(m, drug) == [i \in 1..Len(m) |-> m[i][drug]]

\* len(np.squeeze(np.where(col == v))): np.where gives a 1-tuple of index arrays,
\* np.squeeze makes it an array of shape (1, n) and drops the axes of length 1:
\* shape (n,) for n # 1, but shape () for n = 1, and len() of a 0-d array raises
\* TypeError ("len() of unsized object").
LenSqueezeWhere(col, v) ==
    LET n == CountEq(col, v)
    IN  [sized |-> n # 1, len |-> n]

\* one iteration of the loop over the drugs: the fault it raises, if any
DrugFault(col) ==
    LET resistant == LenSqueezeWhere(col, 0)
        sensitive == LenSqueezeWhere(col, 1)
    IN  IF ~resistant.sized THEN Raised("TypeError", 215)
        ELSE IF ~sensitive.sized THEN Raised("TypeError", 216)
        ELSE IF resistant.len + sensitive.len = 0 THEN Raised("ZeroDivisionError", 217)
        ELSE NoRet

\* alphas[drug] = resistant / float(resistant + sensitive)
AlphasSensitiveFraction(col) == Rat(CountEq(col, 1), CountEq(col, 0) + CountEq(col, 1))

Alphas(col) == Rat(CountEq(col, 0), CountEq(col, 0) + CountEq(col, 1))

\* the two masked assignments into the zero matrix
AlphaEntry(label, alphas, weight) ==
    IF label = 1 THEN RMul(weight, alphas)
    ELSE IF label = 0 THEN RNeg(alphas)
    ELSE RInt(0)

\* The whole function: the drugs are visited in order, the first fault ends the call.
alpha_mat(subset_y, weight) ==
    LET y_cnn == subset_y
        faulty == {drug \in 1..NumDrugs : DrugFault(Column(y_cnn, drug)).kind = "raise"}
    IN  IF faulty # {}
        THEN LET first == CHOOSE d \in faulty : \A e \in faulty : d <= e
             IN  [DrugFault(Column(y_cnn, first)) EXCEPT !.val = <<@, first>>]
        ELSE Returned([i \in 1..Len(y_cnn) |->
                        [drug \in 1..NumDrugs |->
                            AlphaEntry(y_cnn[i][drug], Alphas(Column(y_cnn, drug)), weight)]])

\* Inputs: label matrices over {0, 1, -1} with 13 columns. One column (the first
\* or the last drug) takes every pattern of labels; the other twelve share one of
\* four patterns: no label, one resistant, two resistant, all sensitive.
MaxIsolates == 4
Labels == {0, 1, -1}
VariedDrugs == {1, NumDrugs}
Weights == {RInt(1), RInt(2), Rat(1, 2)}

BaseColumns(n) ==
    { [i \in 1..n |-> -1],
      [i \in 1..n |-> IF i = 1 THEN 0 ELSE 1],
      [i \in 1..n |-> IF i <= 2 THEN 0 ELSE 1],
      [i \in 1..n |-> 1] }

LabelMatrix(n, base, varied, d) ==
    [i \in 1..n |-> [drug \in 1..NumDrugs |-> IF drug = d THEN varied[i] ELSE base[i]]]

LabelMatrices ==
    UNION { { LabelMatrix(n, base, varied, d) :
                base \in BaseColumns(n), varied \in [1..n -> Labels], d \in VariedDrugs }
            : n \in 0..MaxIsolates }

InitAlpha ==
    /\ call = "alpha_mat"
    /\ \E m \in LabelMatrices, w \in Weights : args = [subset_y |-> m, weight |-> w]
    /\ pc = "start" /\ ret = NoRet
    /\ fs = NoFile /\ proc = NoProc /\ hist = NoHist

AlphaMat ==
    /\ call = "alpha_mat" /\ pc = "start"
    /\ ret' = alpha_mat(args.subset_y, args.weight)
    /\ pc' = IF ret'.kind = "return" THEN "returned" ELSE "raised"
    /\ UNCHANGED <<call, args, fs, proc, hist>>

NextAlpha == AlphaMat
SpecAlpha == InitAlpha /\ [][NextAlpha]_vars

\* counts of one drug column of the input, for the claims
NumResistant(drug) == Cardinality({i \in DOMAIN args.subset_y : args.subset_y[i][drug] = 0})
NumSensitive(drug) == Cardinality({i \in DOMAIN args.subset_y : args.subset_y[i][drug] = 1})

----------------------------------------------------------------------------
\* C2: for every label matrix in which each drug has at least one labeled
\* isolate, alpha_mat returns a matrix of the same shape whose entries are
\* weight * resistant_fraction for label 1, -resistant_fraction for label 0 and
\* 0 for label -1, with resistant_fraction = #0 / (#0 + #1) of the drug column.
C2_EachDrugLabeled == \A drug \in 1..NumDrugs : NumResistant(drug) + NumSensitive(drug) > 0

C2_AlphaValues ==
    (call = "alpha_mat" /\ pc # "start" /\ C2_EachDrugLabeled) =>
        /\ ret.kind = "return"
        /\ Len(ret.val) = Len(args.subset_y)
        /\ \A i \in DOMAIN args.subset_y : \A drug \in 1..NumDrugs :
              LET a == ret.val[i][drug]
                  r == NumResistant(drug)
                  t == NumResistant(drug) + NumSensitive(drug)
                  label == args.subset_y[i][drug]
              IN  /\ label = 1 => a[1] * t * args.weight[2] = a[2] * r * args.weight[1]
                  /\ label = 0 => a[1] * t = -(a[2] * r)
                  /\ label = -1 => a[1] = 0

\* C3: in every matrix alpha_mat returns with a positive weight, an entry is
\* > 0 for label 1, < 0 for label 0 and 0 exactly for label -1.
C3_SignEncodesLabel ==
    (call = "alpha_mat" /\ pc = "returned" /\ args.weight[1] > 0) =>
        \A i \in DOMAIN args.subset_y : \A drug \in 1..NumDrugs :
            LET a == ret.val[i][drug]
                label == args.subset_y[i][drug]
            IN  /\ label = 1 => a[1] > 0
                /\ label = 0 => a[1] < 0
                /\ (a[1] = 0) <=> (label = -1)

----------------------------------------------------------------------------
(* rs_encoding_to_numeric *)

\* A cell of a table is a Python value: its type and its str()
StrCell(s) == [kind |-> "str", repr |-> s]
IntCell(s) == [kind |-> "int", repr |-> s]
NaN == [kind |-> "float", repr |-> "nan"]

\* DataFrame.fillna(value)
FillNa(cell, value) == IF cell = NaN THEN value ELSE cell

\* DataFrame.astype(str): str() of the value
AsTypeStr(cell) == StrCell(cell.repr)

\* resistance_categories = {'R': 0, 'S': 1, '-1.0': -1, '-1': -1}
resistance_categories ==
    [key \in {"R", "S", "-1.0", "-1"} |->
        IF key = "R" THEN IntCell("0")
        ELSE IF key = "S" THEN IntCell("1") ELSE IntCell("-1")]

\* one cell through fillna('-1'), astype(str) and the loop y_all[y_all_rs == key] = val:
\* a string that is no key of resistance_categories stays the string it is
EncodeCell(cell) ==
    LET y_all_rs == AsTypeStr(FillNa(cell, StrCell("-1")))
    IN  IF y_all_rs.repr \in DOMAIN resistance_categories
        THEN resistance_categories[y_all_rs.repr]
        ELSE y_all_rs

\* df[drugs_list]: the columns of drugs_list, in the order of drugs_list
SelectColumns(df, names) ==
    [i \in 1..Len(df.values) |->
        [j \in 1..Len(names) |->
            df.values[i][CHOOSE c \in 1..Len(df.columns) : df.columns[c] = names[j]]]]

\* The whole function: (y_all, y_all_array)
rs_encoding_to_numeric(df_geno_pheno, drugs_list) ==
    LET selected == SelectColumns(df_geno_pheno, drugs_list)
        encoded == [i \in 1..Len(selected) |->
                      [j \in 1..Len(drugs_list) |-> EncodeCell(selected[i][j])]]
    IN  Returned([y_all |-> [index |-> [i \in 1..Len(encoded) |-> i - 1],
                             columns |-> drugs_list,
                             values |-> encoded],
                  y_all_array |-> encoded])

\* Inputs: phenotype tables whose drug cells are "R", "S" or missing (NaN, or the
\* -1 that make_geno_pheno_pkl's fillna(-1) leaves), beside a column that is no drug
MaxPhenoRows == 2
PhenoColumns == <<"ISONIAZID", "category", "RIFAMPICIN">>
DrugsList == <<"RIFAMPICIN", "ISONIAZID">>
PhenoCells == {StrCell("R"), StrCell("S"), NaN, IntCell("-1")}

PhenoTables ==
    UNION { { [index |-> [i \in 1..n |-> 100 + i],
               columns |-> PhenoColumns,
               values |-> [i \in 1..n |-> <<cells[i][1], StrCell("set1"), cells[i][2]>>]] :
                cells \in [1..n -> [1..2 -> PhenoCells]] }
            : n \in 0..MaxPhenoRows }

InitEncode ==
    /\ call = "rs_encoding_to_numeric"
    /\ \E df \in PhenoTables : args = [df_geno_pheno |-> df, drugs_list |-> DrugsList]
    /\ pc = "start" /\ ret = NoRet
    /\ fs = NoFile /\ proc = NoProc /\ hist = NoHist

\* the first call, on the phenotype table
RsEncodingToNumeric ==
    /\ call = "rs_encoding_to_numeric" /\ pc = "start"
    /\ ret' = rs_encoding_to_numeric(args.df_geno_pheno, args.drugs_list)
    /\ pc' = "encoded"
    /\ UNCHANGED <<call, args, fs, proc, hist>>

\* a second call, on the table the first call returned, with the same drug list
RsEncodingToNumericAgain ==
    /\ call = "rs_encoding_to_numeric" /\ pc = "encoded"
    /\ args' = [args EXCEPT !.df_geno_pheno = ret.val.y_all]
    /\ ret' = rs_encoding_to_numeric(ret.val.y_all, args.drugs_list)
    /\ pc' = "returned"
    /\ UNCHANGED <<call, fs, proc, hist>>

NextEncode == RsEncodingToNumeric \/ RsEncodingToNumericAgain
SpecEncode == InitEncode /\ [][NextEncode]_vars

----------------------------------------------------------------------------
\* C4: rs_encoding_to_numeric is idempotent: encoding the encoded table again
\* with the same drug list yields the same value in every cell.
C4_Idempotent ==
    (call = "rs_encoding_to_numeric" /\ pc = "returned") =>
        ret.val.y_all_array = args.df_geno_pheno.values

----------------------------------------------------------------------------
(* split_into_traintest *)

\* The names bound at module level of tb_cnn_codebase_tf1.py: its imports, the one
\* constant and its functions. A function body looks a free name up here.
ModuleGlobals ==
    {"sys", "glob", "os", "yaml", "sparse", "np", "pd", "K", "tf", "SeqIO",
     "BASE_TO_COLUMN", "get_one_hot", "sequence_dictionary", "make_genotype_df",
     "rs_encoding_to_numeric", "alpha_mat", "make_geno_pheno_pkl", "create_X",
     "masked_multi_weighted_bce", "masked_weighted_accuracy", "load_alpha_matrix",
     "split_into_traintest", "get_threshold_val"}

\* the ascending positions (0-based, after reset_index) of the rows that satisfy P
IndexWhere(n, selected) ==
    LET S == {i \in 0..(n - 1) : selected[i]}
    IN  [k \in 1..Cardinality(S) |->
            CHOOSE i \in S : Cardinality({j \in S : j < i}) = k - 1]

\* X_all[indices, :]
TakeRows(X_all, indices) == [k \in 1..Len(indices) |-> X_all[indices[k] + 1]]

\* The whole function. A missing category (NaN) equals nothing: it is a test row.
\* The two save_npz calls name pkl_file_sparse_train and pkl_file_sparse_test,
\* which are neither parameters nor locals: they are looked up in the module.
split_into_traintest(X_sparse, df_geno_pheno, category) ==
    LET X_all == X_sparse
        col == df_geno_pheno.category
        train_indices == IndexWhere(Len(col), [i \in 0..(Len(col) - 1) |-> col[i + 1] = category])
        test_indices == IndexWhere(Len(col), [i \in 0..(Len(col) - 1) |-> col[i + 1] # category])
        X_train == TakeRows(X_all, train_indices)
        X_test == TakeRows(X_all, test_indices)
    IN  IF "pkl_file_sparse_train" \notin ModuleGlobals THEN Raised("NameError", 436)
        ELSE IF "pkl_file_sparse_test" \notin ModuleGlobals THEN Raised("NameError", 439)
        ELSE Returned([X_sparse_train |-> X_train, X_sparse_test |-> X_test])

\* Inputs: a tensor of rows and a metadata table in the same row order
MaxRows == 3
RowValues == {"x", "y"}
Categories == {"set1", "set2", "nan"}

InitSplit ==
    /\ call = "split_into_traintest"
    /\ \E n \in 1..MaxRows :
         \E X \in [1..n -> RowValues], cat \in [1..n -> Categories] :
            \E c \in Range(cat) \ {"nan"} :
                args = [X_sparse |-> X, df_geno_pheno |-> [category |-> cat], category |-> c]
    /\ pc = "start" /\ ret = NoRet
    /\ fs = NoFile /\ proc = NoProc /\ hist = NoHist

SplitIntoTraintest ==
    /\ call = "split_into_traintest" /\ pc = "start"
    /\ ret' = split_into_traintest(args.X_sparse, args.df_geno_pheno, args.category)
    /\ pc' = IF ret'.kind = "return" THEN "returned" ELSE "raised"
    /\ UNCHANGED <<call, args, fs, proc, hist>>

NextSplit == SplitIntoTraintest
SpecSplit == InitSplit /\ [][NextSplit]_vars

----------------------------------------------------------------------------
\* C5: for a category value present in the metadata, split_into_traintest returns
\* the rows whose category equals the value as the train tensor and the rows whose
\* category differs as the test tensor, each in input order, every row in exactly one.
C5_Subsequence(whole, S) ==
    LET n == Cardinality(S)
    IN  [k \in 1..Cardinality(S) |->
            whole[CHOOSE i \in S : Cardinality({j \in S : j < i}) = k - 1]]

C5_Partition ==
    (call = "split_into_traintest" /\ pc # "start") =>
        /\ ret.kind = "return"
        /\ ret.val.X_sparse_train =
              C5_Subsequence(args.X_sparse,
                  {i \in DOMAIN args.X_sparse :
                      args.df_geno_pheno.category[i] = args.category})
        /\ ret.val.X_sparse_test =
              C5_Subsequence(args.X_sparse,
                  {i \in DOMAIN args.X_sparse :
                      args.df_geno_pheno.category[i] # args.category})
        /\ Len(ret.val.X_sparse_train) + Len(ret.val.X_sparse_test) = Len(args.X_sparse)

----------------------------------------------------------------------------
(* get_one_hot and create_X; positions, symbol columns, strains and loci are
   0-based as in the source *)

\* BASE_TO_COLUMN = {'A': 0, 'C': 1, 'T': 2, 'G': 3, '-': 4}
BASE_TO_COLUMN == [b \in {"A", "C", "T", "G", "-"} |->
                     CASE b = "A" -> 0 [] b = "C" -> 1 [] b = "T" -> 2
                       [] b = "G" -> 3 [] b = "-" -> 4]

\* the second dimension of np.zeros((seq_len, 5))
NumSymbols == 5

\* get_one_hot: one_hot[p][c] = 1 exactly at the column of sequence[p]
get_one_hot(sequence) ==
    [p \in 0..(Len(sequence) - 1) |->
        [c \in 0..(NumSymbols - 1) |-> IF BASE_TO_COLUMN[sequence[p + 1]] = c THEN 1 ELSE 0]]

\* one_hot_gene.shape[0]
Shape0(one_hot) == Cardinality(DOMAIN one_hot)

\* _get_shapes: the columns whose name contains "one_hot", in column order
\* (as positions in df.columns)
OneHotColumns(df) ==
    LET S == {c \in 1..Len(df.columns) : df.columns[c].suffix = "_one_hot"}
    IN  [k \in 1..Cardinality(S) |-> CHOOSE c \in S : Cardinality({d \in S : d < c}) = k - 1]

\* shapes[column]: the length of the one-hot matrix of the first row
Shapes(df) == [k \in 1..Len(OneHotColumns(df)) |-> Shape0(df.values[1][OneHotColumns(df)[k]])]

L_longest_first(shapes) == shapes[1]

\* max(list(shapes.values()))
L_longest(shapes) == CHOOSE m \in Range(shapes) : \A x \in Range(shapes) : x <= m

\* X[idx, :, range(0, L), gene_index] = one_hot_gene: the three integer indices are
\* separated by the slice, so the indexed sub-array has shape (L, 5) and entry
\* [c][p] of the tensor takes one_hot_gene[p][c]; the rest keeps the zeros
TensorEntry(one_hot_gene, c, p) ==
    IF p \in DOMAIN one_hot_gene THEN one_hot_gene[p][c] ELSE 0

\* The whole function
create_X(df_geno_pheno) ==
    LET genes == OneHotColumns(df_geno_pheno)
        n_genes == Len(genes)
        n_strains == Len(df_geno_pheno.index)
    IN  IF n_genes > 0 /\ n_strains = 0 THEN Raised("IndexError", 299)
        ELSE IF n_genes = 0 THEN Raised("ValueError", 307)
        ELSE
          LET shapes == Shapes(df_geno_pheno)
              longest == L_longest(shapes)
          IN  IF \E i \in 1..n_strains, k \in 1..n_genes :
                    Shape0(df_geno_pheno.values[i][genes[k]]) > longest
              THEN Raised("IndexError", 320)
              ELSE Returned(
                    [idx \in 0..(n_strains - 1) |->
                      [c \in 0..(NumSymbols - 1) |->
                        [p \in 0..(longest - 1) |->
                          [gene_index \in 0..(n_genes - 1) |->
                            TensorEntry(df_geno_pheno.values[idx + 1][genes[gene_index + 1]],
                                        c, p)]]]])

\* Inputs: the table make_geno_pheno_pkl builds: the sequence columns, then their
\* one-hot columns in the same order, then a phenotype column. All the rows of a
\* locus have the length of that locus.
MaxLen == 2
Strains == <<"iso1", "iso2">>
Loci == <<"geneA", "geneB">>
InputBases == {"C", "-"}

\* the sequences of one locus: one per strain, of one length
LocusSequences(n) == UNION {[1..n -> [1..len -> InputBases]] : len \in 1..MaxLen}

MergedTable(n, g, seqs) ==
    [index |-> SubSeq(Strains, 1, n),
     columns |-> [c \in 1..(2 * g + 1) |->
                    IF c <= g THEN [locus |-> Loci[c], suffix |-> ""]
                    ELSE IF c <= 2 * g THEN [locus |-> Loci[c - g], suffix |-> "_one_hot"]
                    ELSE [locus |-> "RIFAMPICIN", suffix |-> ""]],
     values |-> [i \in 1..n |->
                    [c \in 1..(2 * g + 1) |->
                        IF c <= g THEN seqs[c][i]
                        ELSE IF c <= 2 * g THEN get_one_hot(seqs[c - g][i])
                        ELSE StrCell("R")]]]

MergedTables ==
    UNION { { MergedTable(n, g, seqs) : seqs \in [1..g -> LocusSequences(n)] }
            : n \in 0..Len(Strains), g \in 1..Len(Loci) }

InitCreateX ==
    /\ call = "create_X"
    /\ \E df \in MergedTables : args = [df_geno_pheno |-> df]
    /\ pc = "start" /\ ret = NoRet
    /\ fs = NoFile /\ proc = NoProc /\ hist = NoHist

CreateX ==
    /\ call = "create_X" /\ pc = "start"
    /\ ret' = create_X(args.df_geno_pheno)
    /\ pc' = IF ret'.kind = "return" THEN "returned" ELSE "raised"
    /\ UNCHANGED <<call, args, fs, proc, hist>>

NextCreateX == CreateX
SpecCreateX == InitCreateX /\ [][NextCreateX]_vars

----------------------------------------------------------------------------
\* C6: for a merged table with at least one isolate in which all rows of a locus
\* have the locus's length L_g, create_X returns X of shape
\* (N_isolates, 5, L_max, N_loci), L_max the largest L_g, with X[i,c,p,g] the
\* entry [p,c] of isolate i's one-hot matrix of locus g for p < L_g and 0 for p >= L_g.
C6_NumLoci == Cardinality({c \in DOMAIN args.df_geno_pheno.columns :
                              args.df_geno_pheno.columns[c].suffix = "_one_hot"})
\* the one-hot matrix of isolate i (from 0) at the g-th (from 0) one-hot column
C6_OneHot(i, g) ==
    LET cols == args.df_geno_pheno.columns
        at == CHOOSE c \in DOMAIN cols :
                /\ cols[c].suffix = "_one_hot"
                /\ Cardinality({d \in 1..(c - 1) : cols[d].suffix = "_one_hot"}) = g
    IN  args.df_geno_pheno.values[i + 1][at]
C6_Length(g) == Cardinality(DOMAIN C6_OneHot(0, g))
C6_LMax == CHOOSE m \in {C6_Length(g) : g \in 0..(C6_NumLoci - 1)} :
              \A g \in 0..(C6_NumLoci - 1) : C6_Length(g) <= m

C6_Tensor ==
    (call = "create_X" /\ pc # "start" /\ Len(args.df_geno_pheno.index) >= 1) =>
        /\ ret.kind = "return"
        /\ LET X == ret.val
               N == Len(args.df_geno_pheno.index)
           IN  /\ DOMAIN X = 0..(N - 1)
               /\ \A i \in 0..(N - 1) :
                    /\ DOMAIN X[i] = 0..4
                    /\ \A c \in 0..4 :
                         /\ DOMAIN X[i][c] = 0..(C6_LMax - 1)
                         /\ \A p \in 0..(C6_LMax - 1) :
                              /\ DOMAIN X[i][c][p] = 0..(C6_NumLoci - 1)
                              /\ \A g \in 0..(C6_NumLoci - 1) :
                                   X[i][c][p][g] =
                                     IF p < C6_Length(g) THEN C6_OneHot(i, g)[p][c] ELSE 0

\* a returned tensor with a locus shorter than the longest: padding happened
C6_Witness ==
    /\ call = "create_X" /\ pc = "returned"
    /\ Len(args.df_geno_pheno.index) = 2 /\ C6_NumLoci = 2
    /\ C6_Length(0) < C6_Length(1)
    /\ \E i \in 0..1 : ret.val[i][1][0][0] = 1 /\ ret.val[i][4][C6_LMax - 1][0] = 0

----------------------------------------------------------------------------
(* masked_multi_weighted_bce, for one isolate: alpha and y_pred are its rows,
   K.sum(..., axis=-1) sums over its drugs *)

\* A float of the tensor library: a finite value, or the result of x / 0
Finite(v) == [fp |-> "finite", v |-> v]
NanFloat == [fp |-> "nan", v |-> RInt(0)]
InfFloat == [fp |-> "inf", v |-> RInt(0)]

\* tensor division: no exception, 0/0 is nan and x/0 is +-inf
FloatDiv(num, den) ==
    IF den # 0 THEN Finite(RMul(num, Rat(1, den)))
    ELSE IF num[1] = 0 THEN NanFloat ELSE InfFloat

\* K.epsilon() is 1e-7: its denominator
EpsilonDen == 10000000
Epsilon == Rat(1, EpsilonDen)

\* K.clip(y_pred, K.epsilon(), 1.0 - K.epsilon())
Clip(y) ==
    IF RLess(y, Epsilon) THEN Epsilon
    ELSE IF RLess(RSub(RInt(1), Epsilon), y) THEN RSub(RInt(1), Epsilon)
    ELSE y

\* -K.log(x) in units of 1e-6, rounded, for the probabilities the inputs reach
NegLog(x) ==
    CASE x = Epsilon -> 16118096
      [] x = Rat(1, 10) -> 2302585
      [] x = Rat(1, 2) -> 693147
      [] x = Rat(9, 10) -> 105361
      [] x = RSub(RInt(1), Epsilon) -> 0

\* K.cast(K.greater(alpha, 0.)) and K.cast(K.not_equal(alpha, 0.))
YTrue(alpha_d) == IF alpha_d[1] > 0 THEN 1 ELSE 0
Mask(alpha_d) == IF alpha_d[1] # 0 THEN 1 ELSE 0

NumDrugsTotal(alpha) == Len(alpha)

\* num_not_missing = K.sum(mask, axis=-1)
NumNotMissing(alpha) == Cardinality({d \in DOMAIN alpha : Mask(alpha[d]) = 1})

BceAbsBothClasses(alpha_d, y_pred_d) ==
    LET y_pred == Clip(y_pred_d)
        y_true_ == YTrue(alpha_d)
        alpha == RAbs(alpha_d)
    IN  RAdd(RMul(RMul(alpha, RInt(y_true_)), RInt(NegLog(y_pred))),
             RMul(RMul(alpha, RInt(1 - y_true_)), RInt(NegLog(RSub(RInt(1), y_pred)))))

\* bce = - alpha * y_true_ * K.log(y_pred) - (1.0 - alpha) * (1.0 - y_true_) * K.log(1.0 - y_pred)
\* with alpha already replaced by K.abs(alpha)
Bce(alpha_d, y_pred_d) ==
    LET y_pred == Clip(y_pred_d)
        y_true_ == YTrue(alpha_d)
        alpha == RAbs(alpha_d)
    IN  RAdd(RMul(RMul(alpha, RInt(y_true_)), RInt(NegLog(y_pred))),
             RMul(RMul(RSub(RInt(1), alpha), RInt(1 - y_true_)),
                  RInt(NegLog(RSub(RInt(1), y_pred)))))

\* K.sum(x, axis=-1)
RECURSIVE KSum(_)
KSum(x) == IF x = <<>> THEN RInt(0) ELSE RAdd(x[1], KSum(Tail(x)))

\* The whole function
masked_multi_weighted_bce(alpha, y_pred) ==
    LET masked_bce == [d \in 1..Len(alpha) |->
                          RMul(Bce(alpha[d], y_pred[d]), RInt(Mask(alpha[d])))]
    IN  Returned(FloatDiv(KSum(masked_bce), NumNotMissing(alpha)))

\* Inputs: one isolate's alpha row (negative entries are -resistant_fraction, in
\* [-1, 0); positive ones weight * resistant_fraction) and predicted probabilities
MaxLossDrugs == 2
AlphaValues == {RInt(-1), Rat(-1, 2), Rat(-1, 4), RInt(0), Rat(1, 4), Rat(1, 2), Rat(3, 2)}
Predictions == {RInt(0), Rat(1, 10), Rat(1, 2), RInt(1)}

InitLoss ==
    /\ call = "masked_multi_weighted_bce"
    /\ \E n \in 1..MaxLossDrugs :
         \E al \in [1..n -> AlphaValues], yp \in [1..n -> Predictions] :
            args = [alpha |-> al, y_pred |-> yp]
    /\ pc = "start" /\ ret = NoRet
    /\ fs = NoFile /\ proc = NoProc /\ hist = NoHist

MaskedMultiWeightedBce ==
    /\ call = "masked_multi_weighted_bce" /\ pc = "start"
    /\ ret' = masked_multi_weighted_bce(args.alpha, args.y_pred)
    /\ pc' = "returned"
    /\ UNCHANGED <<call, args, fs, proc, hist>>

NextLoss == MaskedMultiWeightedBce
SpecLoss == InitLoss /\ [][NextLoss]_vars

Labeled == {d \in DOMAIN args.alpha : args.alpha[d] # RInt(0)}

\* the sum of a per-drug term over the labeled drugs, as a rational
RECURSIVE SumOver(_, _)
SumOver(S, term) ==
    IF S = {} THEN RInt(0)
    ELSE LET d == CHOOSE x \in S : TRUE
         IN  RAdd(term[d], SumOver(S \ {d}, term))

\* y_pred clipped to [1e-7, 1 - 1e-7], and its complement
C7_P(d) == IF args.y_pred[d] = RInt(0) THEN Rat(1, EpsilonDen)
           ELSE IF args.y_pred[d] = RInt(1) THEN Rat(EpsilonDen - 1, EpsilonDen)
           ELSE args.y_pred[d]
C7_Q(d) == Rat(C7_P(d)[2] - C7_P(d)[1], C7_P(d)[2])

\* C7 as stated: the term of every labeled drug is weighted by |alpha|, for
\* alpha > 0 |alpha| * (-log y_pred) and for alpha < 0 |alpha| * (-log (1 - y_pred)).
C7_TermAsStated == [d \in Labeled |->
    LET a == args.alpha[d]
    IN  IF a[1] > 0 THEN Rat(a[1] * NegLog(C7_P(d)), a[2])
        ELSE Rat((-a[1]) * NegLog(C7_Q(d)), a[2])]

C7_WeightIsAbsAlpha ==
    (call = "masked_multi_weighted_bce" /\ pc = "returned" /\ Labeled # {}) =>
        ret.val = Finite(Rat(SumOver(Labeled, C7_TermAsStated)[1],
                             SumOver(Labeled, C7_TermAsStated)[2] * Cardinality(Labeled)))

\* C7 amended: the term of a drug with alpha > 0 is |alpha| * (-log y_pred), the
\* term of a drug with alpha < 0 is (1 - |alpha|) * (-log (1 - y_pred)), y_pred
\* clipped to [1e-7, 1 - 1e-7].
C7_Term == [d \in Labeled |->
    LET a == args.alpha[d]
    IN  IF a[1] > 0 THEN Rat(a[1] * NegLog(C7_P(d)), a[2])
        ELSE Rat((a[2] + a[1]) * NegLog(C7_Q(d)), a[2])]

C7_WeightByClass ==
    (call = "masked_multi_weighted_bce" /\ pc = "returned" /\ Labeled # {}) =>
        ret.val = Finite(Rat(SumOver(Labeled, C7_Term)[1],
                             SumOver(Labeled, C7_Term)[2] * Cardinality(Labeled)))

\* a resistant drug whose weight 1 - |alpha| differs from |alpha| was scored
C7_Witness ==
    /\ call = "masked_multi_weighted_bce" /\ pc = "returned"
    /\ args.alpha = <<Rat(-1, 4)>> /\ args.y_pred = <<Rat(1, 2)>>
    /\ ret.val = Finite(Rat(3 * 693147, 4))

\* C8: the result is the sum of the per-drug terms over the drugs with
\* alpha # 0 divided by the number of those drugs (not by the number of drugs);
\* with alpha = 0 for every drug it is 0/0, nan, never a loss of 0.
C8_CodeTerm == [d \in DOMAIN args.alpha |-> Bce(args.alpha[d], args.y_pred[d])]

C8_MeanOverLabeled ==
    (call = "masked_multi_weighted_bce" /\ pc = "returned") =>
        /\ Labeled # {} =>
              ret.val = [fp |-> "finite",
                         v |-> Rat(SumOver(Labeled, C8_CodeTerm)[1],
                                   SumOver(Labeled, C8_CodeTerm)[2] * Cardinality(Labeled))]
        /\ Labeled = {} => ret.val.fp = "nan" /\ ret.val # Finite(RInt(0))

\* an isolate with a labeled and an unlabeled drug, whose unmasked term is not 0
C8_Witness ==
    /\ call = "masked_multi_weighted_bce" /\ pc = "returned"
    /\ Len(args.alpha) = 2 /\ Cardinality(Labeled) = 1
    /\ \E d \in DOMAIN args.alpha : d \notin Labeled /\ C8_CodeTerm[d] # RInt(0)
    /\ ret.val.fp = "finite" /\ ret.val.v[1] > 0

----------------------------------------------------------------------------
(* alpha_mat and get_threshold_val on degenerate label distributions *)

InitDegenerate == InitAlpha \/ InitThreshold
NextDegenerate == AlphaMat \/ GetThresholdVal
SpecDegenerate == InitDegenerate /\ [][NextDegenerate]_vars

\* C9 as stated: whenever a drug column has no resistant or no sensitive labeled
\* isolate alpha_mat fails with a division by zero, and whenever y_true has no 0
\* or no 1 get_threshold_val fails with a division by zero. It is stated for the
\* matrices in which no column has exactly one resistant or exactly one sensitive
\* isolate: those end the call with the TypeError of line 215 or 216 instead.
C9_NoSingleCount ==
    \A drug \in 1..NumDrugs : NumResistant(drug) # 1 /\ NumSensitive(drug) # 1

C9_DegenerateIsFault ==
    /\ (call = "alpha_mat" /\ pc # "start" /\ C9_NoSingleCount
          /\ \E drug \in 1..NumDrugs : NumResistant(drug) = 0 \/ NumSensitive(drug) = 0)
       => (ret.kind = "raise" /\ ret.exc = "ZeroDivisionError")
    /\ (call = "get_threshold_val" /\ pc # "start"
          /\ (CountEq(args.y_true, 0) = 0 \/ CountEq(args.y_true, 1) = 0))
       => (ret.kind = "raise" /\ ret.exc = "ZeroDivisionError")

\* C9 amended: alpha_mat fails with a division by zero only at a drug column with
\* no labeled isolate at all, and does so whenever the loop over the drugs reaches
\* such a column (no earlier column has ended the call); a column that lacks one
\* class only, with at least two isolates of the other, is no fault: in the
\* returned matrix its label-1 entries are 0 (no resistant) and its label-0
\* entries are -1 (no sensitive). get_threshold_val fails with a division by
\* zero exactly when y_true has no 0 or no 1.
C9_Unlabeled(drug) == NumResistant(drug) + NumSensitive(drug) = 0
C9_EndsCall(drug) ==
    C9_Unlabeled(drug) \/ NumResistant(drug) = 1 \/ NumSensitive(drug) = 1

C9_DivisionByZero ==
    /\ (call = "alpha_mat" /\ pc # "start") =>
          /\ (ret.kind = "raise" /\ ret.exc = "ZeroDivisionError")
                => C9_Unlabeled(ret.val[2])
          /\ \A drug \in 1..NumDrugs :
                (C9_Unlabeled(drug) /\ \A e \in 1..(drug - 1) : ~C9_EndsCall(e))
                    => ret = Raised("ZeroDivisionError", <<217, drug>>)
          /\ (\A drug \in 1..NumDrugs : ~C9_EndsCall(drug)) =>
                /\ ret.kind = "return"
                /\ \A drug \in 1..NumDrugs : \A i \in DOMAIN args.subset_y :
                      /\ (NumResistant(drug) = 0 /\ args.subset_y[i][drug] = 1)
                            => ret.val[i][drug] = <<0, 1>>
                      /\ (NumSensitive(drug) = 0 /\ args.subset_y[i][drug] = 0)
                            => ret.val[i][drug] = <<-1, 1>>
    /\ (call = "get_threshold_val" /\ pc # "start") =>
          ((ret.kind = "raise" /\ ret.exc = "ZeroDivisionError")
              <=> (CountEq(args.y_true, 0) = 0 \/ CountEq(args.y_true, 1) = 0))

\* alpha_mat returned a matrix although one drug has no resistant isolate and
\* another has no sensitive isolate
C9_Witness ==
    /\ call = "alpha_mat" /\ pc = "returned"
    /\ \E drug \in 1..NumDrugs : NumResistant(drug) = 0 /\ NumSensitive(drug) >= 2
    /\ \E drug \in 1..NumDrugs : NumSensitive(drug) = 0 /\ NumResistant(drug) >= 2

----------------------------------------------------------------------------
(* load_alpha_matrix: callers of one alpha_matrix_path *)

\* os.path.isfile(alpha_matrix_path)
IsFileNever(file) == FALSE

IsFile(file) == file.exists

\* np.savetxt(path, alpha_matrix, delimiter=','): one line per row, each value
\* printed with '%.18e', which is enough digits to name the float exactly
FormatE(v) == [fmt |-> "%.18e", digits |-> v]
SaveTxt(alpha_matrix) ==
    [i \in 1..Len(alpha_matrix) |->
        [j \in 1..Len(alpha_matrix[i]) |-> FormatE(alpha_matrix[i][j])]]

\* np.loadtxt(path, delimiter=','): the floats the lines name; a file of one
\* line is returned as a vector, an empty file as an empty array
ParseFloat(text) == text.digits
LoadTxt(file) ==
    LET rows == [i \in 1..Len(file.text) |->
                    [j \in 1..Len(file.text[i]) |-> ParseFloat(file.text[i][j])]]
    IN  IF Len(rows) = 1 THEN rows[1] ELSE rows

\* **kwargs: with or without weight_of_sensitive_class
NoKwargs == [has_weight |-> FALSE, weight_of_sensitive_class |-> RInt(0)]
Kwargs(w) == [has_weight |-> TRUE, weight_of_sensitive_class |-> w]

\* the create branch: alpha_mat with the weight given, or with its default 1.
ComputeAlphaMatrix(y_array, kwargs) ==
    IF kwargs.has_weight THEN alpha_mat(y_array, kwargs.weight_of_sensitive_class)
    ELSE alpha_mat(y_array, RInt(1))

\* Callers and what they pass: two label matrices alpha_mat accepts and one it
\* ends with an exception (a drug with exactly one resistant isolate)
MaxCalls == 2
Callers == {"c1", "c2"}
CacheYArrays ==
    { LabelMatrix(MaxIsolates, [i \in 1..MaxIsolates |-> IF i <= 2 THEN 0 ELSE 1],
                  [i \in 1..MaxIsolates |-> IF i <= 2 THEN 0 ELSE 1], 1),
      LabelMatrix(MaxIsolates, [i \in 1..MaxIsolates |-> IF i <= 2 THEN 0 ELSE 1],
                  [i \in 1..MaxIsolates |-> IF i <= 3 THEN 0 ELSE -1], 1),
      LabelMatrix(MaxIsolates, [i \in 1..MaxIsolates |-> IF i <= 2 THEN 0 ELSE 1],
                  [i \in 1..MaxIsolates |-> IF i <= 1 THEN 0 ELSE 1], 1) }
CacheKwargs == {NoKwargs, Kwargs(RInt(2))}

Idle == [pc |-> "idle", y_array |-> <<>>, kwargs |-> NoKwargs, found |-> FALSE,
         alpha_matrix |-> <<>>, ret |-> NoRet, calls |-> 0]

\* the path holds nothing, or the matrix an earlier run saved
InitCache ==
    /\ call = "load_alpha_matrix" /\ args = <<>> /\ pc = "start" /\ ret = NoRet
    /\ \/ fs = NoFile
       \/ \E y \in CacheYArrays :
             /\ alpha_mat(y, RInt(1)).kind = "return"
             /\ fs = File(SaveTxt(alpha_mat(y, RInt(1)).val))
    /\ proc = [c \in Callers |-> Idle]
    /\ hist = [computed |-> 0, writes |-> 0, overlap |-> FALSE]

\* a caller enters load_alpha_matrix(alpha_matrix_path, y_array, df_geno_pheno, **kwargs)
Call(c) ==
    /\ proc[c].pc = "idle" /\ proc[c].calls < MaxCalls
    /\ \E y \in CacheYArrays, kw \in CacheKwargs :
          proc' = [proc EXCEPT ![c] = [@ EXCEPT !.pc = "isfile", !.y_array = y,
                                                !.kwargs = kw, !.ret = NoRet,
                                                !.alpha_matrix = <<>>]]
    /\ hist' = [hist EXCEPT !.overlap = @ \/ \E d \in Callers \ {c} : proc[d].pc # "idle"]
    /\ UNCHANGED <<call, args, pc, ret, fs>>

\* if os.path.isfile(alpha_matrix_path)
CheckIsFile(c) ==
    /\ proc[c].pc = "isfile"
    /\ proc' = [proc EXCEPT ![c] = [@ EXCEPT !.found = IsFile(fs),
                                    !.pc = IF IsFile(fs) THEN "loadtxt" ELSE "alpha_mat"]]
    /\ UNCHANGED <<call, args, pc, ret, fs, hist>>

\* alpha_matrix = np.loadtxt(alpha_matrix_path, delimiter=','); return alpha_matrix
LoadBranch(c) ==
    /\ proc[c].pc = "loadtxt"
    /\ proc' = [proc EXCEPT ![c] = [@ EXCEPT !.alpha_matrix = LoadTxt(fs),
                                    !.ret = Returned(LoadTxt(fs)),
                                    !.pc = "idle", !.calls = @ + 1]]
    /\ UNCHANGED <<call, args, pc, ret, fs, hist>>

\* alpha_matrix = alpha_mat(...): an exception of alpha_mat ends the call
CreateBranch(c) ==
    /\ proc[c].pc = "alpha_mat"
    /\ LET r == ComputeAlphaMatrix(proc[c].y_array, proc[c].kwargs)
       IN  IF r.kind = "raise"
           THEN /\ proc' = [proc EXCEPT ![c] = [@ EXCEPT !.ret = r, !.pc = "idle",
                                                !.calls = @ + 1]]
                /\ hist' = hist
           ELSE /\ proc' = [proc EXCEPT ![c] = [@ EXCEPT !.alpha_matrix = r.val,
                                                !.pc = "savetxt"]]
                /\ hist' = [hist EXCEPT !.computed = @ + 1]
    /\ UNCHANGED <<call, args, pc, ret, fs>>

\* np.savetxt opens the path for writing: the file exists and is empty
SaveTxtOpen(c) ==
    /\ proc[c].pc = "savetxt"
    /\ fs' = File(<<>>)
    /\ proc' = [proc EXCEPT ![c] = [@ EXCEPT !.pc = "savetxt_write"]]
    /\ UNCHANGED <<call, args, pc, ret, hist>>

\* np.savetxt writes the lines and closes; return alpha_matrix
SaveTxtWrite(c) ==
    /\ proc[c].pc = "savetxt_write"
    /\ fs' = File(SaveTxt(proc[c].alpha_matrix))
    /\ proc' = [proc EXCEPT ![c] = [@ EXCEPT !.ret = Returned(proc[c].alpha_matrix),
                                    !.pc = "idle", !.calls = @ + 1]]
    /\ hist' = [hist EXCEPT !.writes = @ + 1]
    /\ UNCHANGED <<call, args, pc, ret>>

NextCache ==
    \E c \in Callers :
        \/ Call(c)
        \/ CheckIsFile(c)
        \/ LoadBranch(c)
        \/ CreateBranch(c)
        \/ SaveTxtOpen(c)
        \/ SaveTxtWrite(c)

SpecCache == InitCache /\ [][NextCache]_vars

----------------------------------------------------------------------------
(* The whole module *)

Init ==
    \/ InitThreshold \/ InitAlpha \/ InitEncode \/ InitSplit
    \/ InitCreateX \/ InitLoss \/ InitCache

Next ==
    \/ GetThresholdVal \/ AlphaMat
    \/ RsEncodingToNumeric \/ RsEncodingToNumericAgain
    \/ SplitIntoTraintest \/ CreateX \/ MaskedMultiWeightedBce
    \/ NextCache

Spec == Init /\ [][Next]_vars

----------------------------------------------------------------------------
\* C10: in a sequence of calls that do not overlap the alpha matrix is computed
\* and written at most once; a call that finds no file takes the create branch
\* and, when alpha_mat returns, writes the matrix of its own y_array and weight
\* to the path and returns it; a call that finds the file takes the load branch,
\* returns the file's content and leaves the file unchanged, whatever it is passed.
\* Overlapping callers are not covered: both can create and write (C10_Witness).
C10_Count(y, drug, label) == Cardinality({i \in DOMAIN y : y[i][drug] = label})

\* the matrix of y_array and weight (default 1), by the rule of the alpha matrix
C10_AlphaOf(y, kw) ==
    LET w == IF kw.has_weight THEN kw.weight_of_sensitive_class ELSE <<1, 1>>
    IN  [i \in DOMAIN y |->
            [drug \in 1..13 |->
                LET r == C10_Count(y, drug, 0)
                    s == C10_Count(y, drug, 1)
                IN  IF y[i][drug] = 1 THEN Rat(w[1] * r, w[2] * (r + s))
                    ELSE IF y[i][drug] = 0 THEN Rat(-r, r + s)
                    ELSE <<0, 1>>]]

\* the numbers a file names, line by line
C10_Content(file) ==
    [i \in DOMAIN file.text |-> [j \in DOMAIN file.text[i] |-> file.text[i][j].digits]]

C10_Step(c) ==
    /\ (proc[c].pc = "isfile" /\ proc'[c].pc # "isfile") =>
          proc'[c].pc = IF fs.exists THEN "loadtxt" ELSE "alpha_mat"
    /\ (proc[c].pc = "loadtxt" /\ proc'[c].pc = "idle") =>
          /\ fs' = fs
          /\ proc'[c].ret = [kind |-> "return", exc |-> "", val |-> C10_Content(fs)]
          /\ hist' = hist
    /\ (proc[c].pc = "savetxt_write" /\ proc'[c].pc = "idle") =>
          /\ fs'.exists /\ C10_Content(fs') = C10_AlphaOf(proc[c].y_array, proc[c].kwargs)
          /\ proc'[c].ret = [kind |-> "return", exc |-> "",
                             val |-> C10_AlphaOf(proc[c].y_array, proc[c].kwargs)]

C10_Sequential == ~hist.overlap => (hist.computed <= 1 /\ hist.writes <= 1)

C10_ComputedOnce ==
    /\ []C10_Sequential
    /\ [][\A c \in Callers : C10_Step(c)]_vars

\* two overlapping callers both took the create branch and both wrote, and a
\* later call found the file and returned its content
C10_Witness ==
    /\ hist.overlap /\ hist.computed = 2 /\ hist.writes = 2
    /\ \E c \in Callers :
          /\ proc[c].pc = "idle" /\ proc[c].calls = 2 /\ proc[c].found
          /\ proc[c].ret = [kind |-> "return", exc |-> "", val |-> C10_Content(fs)]

====
